---- MODULE Spec2Model ----
(***************************************************************************)
(* Last-mile delivery dashboard (src/app.py).                              *)
(*                                                                         *)
(* The script is a Streamlit page: it is run top to bottom when a session  *)
(* starts and run again, top to bottom, each time the user changes a       *)
(* sidebar multiselect.  One run reads the CSV, trims it, resolves the     *)
(* eight target columns against the file's headers, coerces the numeric    *)
(* columns, drops rows without a delivery time, derives Age_Group and      *)
(* Late, filters by the sidebar selections and computes KPIs and grouped   *)
(* means.                                                                  *)
(*                                                                         *)
(* Strings are TLA+ strings; str.strip and str.lower are tables over the   *)
(* strings the model uses.  A missing value (np.nan) of a text column is   *)
(* NA; numbers are records so that NaN and inf are values of their own.    *)
(* Delivery times are whole numbers and the comparisons with mean + std    *)
(* are made exactly.                                                       *)
(***************************************************************************)
EXTENDS Integers, Sequences, FiniteSets, TLC

VARIABLES
    hdrs,         \* header row of the CSV file, as written in the file
    rows,         \* data rows of the file: sequence of [hdrs -> cell]
    pc,           \* "ready" | "shown" | "stopped" (st.stop())
    col_map,      \* target -> file column or None
    before_rows,  \* len(work) before dropna
    after_rows,   \* len(work) after dropna
    work,         \* the working frame with Age_Group and Late
    threshold,    \* mean_dt + std_dt
    sel,          \* the five sidebar selections
    filtered,     \* the filtered frame
    kpi,          \* the three metrics
    grp           \* the four grouped frames

vars == <<hdrs, rows, pc, col_map, before_rows, after_rows, work, threshold,
          sel, filtered, kpi, grp>>

----------------------------------------------------------------------------
(* Bounds *)

MaxRows == 3

----------------------------------------------------------------------------
(* Values *)

NA == "<NA>"          \* np.nan in an object column
None == "<None>"      \* Python None in col_map

Num(v) == [kind |-> "num", val |-> v]
NaN == [kind |-> "nan", val |-> 0]
Inf == [kind |-> "inf", val |-> 0]
Dash == [kind |-> "dash", val |-> 0]    \* the "—" shown for an undefined metric

Min(S) == CHOOSE x \in S : \A y \in S : x <= y

\* str.strip over the strings of the model
strip(s) ==
    CASE s = " 9 " -> "9"
      [] s = " Sunny " -> "Sunny"
      [] s = " food " -> "food"
      [] s = "  " -> ""
      [] s = " Weather" -> "Weather"
      [] s = "Delivery Time " -> "Delivery Time"
      [] OTHER -> s

\* str.lower over the strings of the model
lower(s) ==
    CASE s \in {"Delivery_Time", "DELIVERY_TIME", "Delivery_time"} -> "delivery_time"
      [] s \in {"Delivery Time", "DELIVERY TIME"} -> "delivery time"
      [] s = "TimeTaken" -> "timetaken"
      [] s = "Time Taken" -> "time taken"
      [] s \in {"Weather", "WEATHER"} -> "weather"
      [] s \in {"Traffic", "TRAFFIC"} -> "traffic"
      [] s = "Traffic Level" -> "traffic level"
      [] s = "Traffic_Level" -> "traffic_level"
      [] s = "Vehicle" -> "vehicle"
      [] s \in {"Vehicle Type", "VEHICLE TYPE"} -> "vehicle type"
      [] s = "Vehicle_Type" -> "vehicle_type"
      [] s = "Agent_Age" -> "agent_age"
      [] s = "Agent Age" -> "agent age"
      [] s \in {"Age", "AGE"} -> "age"
      [] s = "Agent_Rating" -> "agent_rating"
      [] s = "Agent Rating" -> "agent rating"
      [] s = "Rating" -> "rating"
      [] s = "Area" -> "area"
      [] s = "Delivery Area" -> "delivery area"
      [] s = "Location" -> "location"
      [] s = "Category" -> "category"
      [] s = "Product Category" -> "product category"
      [] s = "Order_ID" -> "order_id"
      [] OTHER -> s

\* pd.to_numeric(errors="coerce") over the cells of the model: a decimal
\* literal is its number, "inf" is the float infinity, anything else NaN
to_numeric(s) ==
    CASE s = "1" -> Num(1)
      [] s = "2" -> Num(2)
      [] s = "4" -> Num(4)
      [] s = "5" -> Num(5)
      [] s = "9" -> Num(9)
      [] s = "24" -> Num(24)
      [] s = "25" -> Num(25)
      [] s = "40" -> Num(40)
      [] s = "41" -> Num(41)
      [] s = "201" -> Num(201)
      [] s = "inf" -> Inf
      [] OTHER -> NaN

----------------------------------------------------------------------------
(* Column resolution *)

Targets == <<"Delivery_Time", "Weather", "Traffic", "Vehicle", "Agent_Age",
             "Agent_Rating", "Area", "Category">>

TargetSet == {Targets[i] : i \in DOMAIN Targets}

variants ==
    [Delivery_Time |-> <<"Delivery_Time", "Delivery Time", "delivery_time",
                         "delivery time", "TimeTaken", "Time Taken">>,
     Weather |-> <<"Weather", "weather", "WEATHER">>,
     Traffic |-> <<"Traffic", "traffic", "Traffic Level", "Traffic_Level">>,
     Vehicle |-> <<"Vehicle", "vehicle", "Vehicle Type", "Vehicle_Type">>,
     Agent_Age |-> <<"Agent_Age", "Agent Age", "Age", "agent_age">>,
     Agent_Rating |-> <<"Agent_Rating", "Agent Rating", "Rating", "agent_rating">>,
     Area |-> <<"Area", "area", "Delivery Area", "Location">>,
     Category |-> <<"Category", "category", "Product Category">>]

CatFields == {"Weather", "Traffic", "Vehicle", "Area", "Category"}

\* df_raw.columns after the strip of the headers
Columns(H) == {strip(h) : h \in H}

\* The orders in which a loop over the set available_cols can visit it
Orders(S) == {o \in [1..Cardinality(S) -> S] : \A i, j \in 1..Cardinality(S) : o[i] = o[j] => i = j}

\* for ac in available_cols: if ac.lower() == v.lower(): found = ac; break
CaseInsensitive(v, order) ==
    LET hits == {i \in DOMAIN order : lower(order[i]) = lower(v)}
    IN  IF hits = {} THEN None ELSE order[Min(hits)]

\* Found with the two passes kept apart: every synonym is tried exactly
\* before any is tried case-insensitively
FoundTwoPhase(variant_list, i, order) ==
    LET avail == {order[k] : k \in DOMAIN order}
        exact == {k \in i..Len(variant_list) : variant_list[k] \in avail}
        loose == {k \in i..Len(variant_list) : CaseInsensitive(variant_list[k], order) # None}
    IN  IF exact # {} THEN variant_list[Min(exact)]
        ELSE IF loose # {} THEN CaseInsensitive(variant_list[Min(loose)], order)
        ELSE None

RECURSIVE Found(_, _, _)
\* for v in variant_list: exact membership, then the case-insensitive scan
Found(variant_list, i, order) ==
    IF i > Len(variant_list) THEN None
    ELSE LET v == variant_list[i]
             avail == {order[k] : k \in DOMAIN order}
         IN  IF v \in avail THEN v
             ELSE IF CaseInsensitive(v, order) # None THEN CaseInsensitive(v, order)
             ELSE Found(variant_list, i + 1, order)

ColMap(order) == [t \in TargetSet |-> Found(variants[t], 1, order)]

----------------------------------------------------------------------------
(* Load, trim, build the working frame *)

\* df[c].astype(str).str.strip().replace({"": nan, "nan": nan, "None": nan})
CleanCell(x) ==
    LET s == strip(IF x = NA THEN "nan" ELSE x)
    IN  IF s \in {"", "nan", "None"} THEN NA ELSE s

\* df[c][i]: the trimmed cell of row i in the column whose stripped header is c
Cell(i, c) == CleanCell(rows[i][CHOOSE h \in hdrs : strip(h) = c])

\* work[target] = df[src] if src else np.nan, then pd.to_numeric on the
\* three numeric columns
WorkRow(cm, i) ==
    LET text(t) == IF cm[t] = None THEN NA ELSE Cell(i, cm[t])
    IN  [Delivery_Time |-> to_numeric(text("Delivery_Time")),
         Agent_Rating |-> to_numeric(text("Agent_Rating")),
         Agent_Age |-> to_numeric(text("Agent_Age")),
         Weather |-> text("Weather"),
         Traffic |-> text("Traffic"),
         Vehicle |-> text("Vehicle"),
         Area |-> text("Area"),
         Category |-> text("Category")]

Frame(cm) == [i \in 1..Len(rows) |-> WorkRow(cm, i)]

HasDeliveryTime(r) == r.Delivery_Time # NaN

\* work.dropna(subset=["Delivery_Time"])
dropna(w) == SelectSeq(w, HasDeliveryTime)

----------------------------------------------------------------------------
(* Age_Group and Late *)

bins == <<-1, 24, 40, 200>>
labels == <<"<25", "25-40", "40+">>

\* pd.cut(x, bins, labels, include_lowest=True).astype(str).replace("nan", "Unknown")
\* for x = Agent_Age.fillna(-1): intervals are closed on the right and the
\* first one also holds its left edge
Age_Group(age) ==
    LET x == IF age = NaN THEN Num(-1) ELSE age
        hit == {i \in DOMAIN labels :
                   /\ x.kind = "num"
                   /\ \/ bins[i] < x.val /\ x.val <= bins[i + 1]
                      \/ i = 1 /\ x.val = bins[1]}
    IN  IF hit = {} THEN "Unknown" ELSE labels[Min(hit)]

RECURSIVE SumOver(_, _)
\* sum of f over the indices in S
SumOver(f, S) ==
    IF S = {} THEN 0
    ELSE LET i == CHOOSE j \in S : TRUE IN f[i] + SumOver(f, S \ {i})

AnyInf(w) == \E i \in DOMAIN w : w[i].Delivery_Time = Inf
Total(w) == SumOver([i \in DOMAIN w |-> w[i].Delivery_Time.val], DOMAIN w)
TotalSq(w) == SumOver([i \in DOMAIN w |-> w[i].Delivery_Time.val * w[i].Delivery_Time.val], DOMAIN w)

\* mean_dt + std_dt (sample standard deviation).  The sum is kept as the
\* count, the sum and the sum of squares it is made of; it is NaN for a
\* single row (std of one value) and when a delivery time is infinite
\* (inf - inf inside std).
Threshold(w) ==
    IF Len(w) < 2 \/ AnyInf(w)
    THEN [kind |-> "nan", n |-> 0, sum |-> 0, sumsq |-> 0]
    ELSE [kind |-> "num", n |-> Len(w), sum |-> Total(w), sumsq |-> TotalSq(w)]

\* x > threshold, exactly: with a = n*x - sum, x > sum/n + sqrt(var) iff
\* a > 0 and a^2 * (n-1) > n * (n*sumsq - sum^2)
Exceeds(x, t) ==
    IF t.kind = "nan" THEN FALSE
    ELSE IF x = Inf THEN TRUE
    ELSE LET a == t.n * x.val - t.sum
         IN  a > 0 /\ a * a * (t.n - 1) > t.n * (t.n * t.sumsq - t.sum * t.sum)

\* work["Age_Group"] = ...; work["Late"] = (Delivery_Time > threshold).astype(int)
Derive(w) ==
    LET t == Threshold(w)
    IN  [i \in DOMAIN w |->
            [Delivery_Time |-> w[i].Delivery_Time,
             Agent_Rating |-> w[i].Agent_Rating,
             Agent_Age |-> w[i].Agent_Age,
             Weather |-> w[i].Weather,
             Traffic |-> w[i].Traffic,
             Vehicle |-> w[i].Vehicle,
             Area |-> w[i].Area,
             Category |-> w[i].Category,
             Age_Group |-> Age_Group(w[i].Agent_Age),
             Late |-> IF Exceeds(w[i].Delivery_Time, t) THEN 1 ELSE 0]]

----------------------------------------------------------------------------
(* Sidebar filters *)

\* sorted(work[col].dropna().unique().tolist())
Options(w, col) == {w[i][col] : i \in DOMAIN w} \ {NA}

\* The state of the sidebar widgets a run starts from: none in a fresh
\* session, else what the user has selected
FreshWidgets == [fresh |-> TRUE, value |-> [c \in CatFields |-> {}]]
Selected(s) == [fresh |-> FALSE, value |-> s]

\* def safe_multiselect(label, col)
safe_multiselect(w, col, widgets) ==
    LET vals == Options(w, col)
    IN  IF vals = {} THEN {}
        ELSE IF widgets.fresh THEN vals
        ELSE widgets.value[col]

Selections(w, widgets) == [c \in CatFields |-> safe_multiselect(w, c, widgets)]

\* IsinStep without the "if x_sel:" guard
IsinStepStrict(f, col, x_sel) ==
    LET keep(r) == r[col] \in x_sel
    IN  SelectSeq(f, keep)

\* if x_sel: filtered = filtered[filtered[col].isin(x_sel)]
IsinStep(f, col, x_sel) ==
    LET keep(r) == r[col] \in x_sel
    IN  IF x_sel # {} THEN SelectSeq(f, keep) ELSE f

\* Filter with threshold and Late taken again over the rows that remain
FilterRederive(w, s) ==
    Derive(IsinStep(IsinStep(IsinStep(IsinStep(IsinStep(w,
        "Weather", s["Weather"]),
        "Traffic", s["Traffic"]),
        "Vehicle", s["Vehicle"]),
        "Area", s["Area"]),
        "Category", s["Category"]))

\* filtered = work.copy() and the five steps
Filter(w, s) ==
    IsinStep(IsinStep(IsinStep(IsinStep(IsinStep(w,
        "Weather", s["Weather"]),
        "Traffic", s["Traffic"]),
        "Vehicle", s["Vehicle"]),
        "Area", s["Area"]),
        "Category", s["Category"])

----------------------------------------------------------------------------
(* KPIs and grouped means *)

RECURSIVE GCD(_, _)
GCD(a, b) == IF b = 0 THEN a ELSE GCD(b, a % b)

\* Series.mean() of Delivery_Time over a non-empty frame, as a fraction in
\* lowest terms; inf when a delivery time is infinite
Mean(w) ==
    IF AnyInf(w) THEN [kind |-> "inf", num |-> 0, den |-> 1]
    ELSE LET g == GCD(Total(w), Len(w))
         IN  [kind |-> "num", num |-> Total(w) \div g, den |-> Len(w) \div g]

\* round(num / den, 2) in hundredths, ties to even
round2(num, den) ==
    LET q == (100 * num) \div den
        r == (100 * num) % den
    IN  IF 2 * r > den THEN q + 1
        ELSE IF 2 * r = den THEN q + (q % 2)
        ELSE q

LateCount(f) == SumOver([i \in DOMAIN f |-> f[i].Late], DOMAIN f)

\* KPIs with the average of no rows shown as 0
KPIsZero(f) ==
    [avg |-> IF f = <<>> THEN Num(0)
             ELSE IF AnyInf(f) THEN Inf
             ELSE Num(round2(Total(f), Len(f))),
     total |-> Len(f),
     late |-> IF Len(f) > 0 THEN Num(round2(100 * LateCount(f), Len(f))) ELSE Num(0)]

\* The three st.columns metrics; avg and late are in hundredths
KPIs(f) ==
    [avg |-> IF f = <<>> THEN Dash
             ELSE IF AnyInf(f) THEN Inf
             ELSE Num(round2(Total(f), Len(f))),
     total |-> Len(f),
     late |-> IF Len(f) > 0 THEN Num(round2(100 * LateCount(f), Len(f))) ELSE Num(0)]

GroupFields == {"Weather", "Traffic", "Vehicle", "Area"}

\* Code-point order of the keys the model uses (groupby sorts its keys)
KeyRank(k) ==
    CASE k = "Bike" -> 1
      [] k = "Food" -> 2
      [] k = "High" -> 3
      [] k = "Rainy" -> 4
      [] k = "Sunny" -> 5
      [] k = "Urban" -> 6
      [] k = "Van" -> 7
      [] k = "food" -> 8
      [] OTHER -> 9

MeanLess(a, b) ==
    IF a.kind = "inf" THEN FALSE
    ELSE IF b.kind = "inf" THEN TRUE
    ELSE a.num * b.den < b.num * a.den

\* filtered.groupby(col, as_index=False)["Delivery_Time"].mean()
\*     .sort_values("Delivery_Time", ascending=...)
\* groupby leaves out the rows whose key is missing; rows of equal mean keep
\* the key order
GroupBy(f, col, ascending) ==
    LET keys == {f[i][col] : i \in DOMAIN f} \ {NA}
        member(k) == LET has(r) == r[col] = k IN SelectSeq(f, has)
        before(j, k) ==
            \/ IF ascending THEN MeanLess(Mean(member(j)), Mean(member(k)))
                            ELSE MeanLess(Mean(member(k)), Mean(member(j)))
            \/ /\ Mean(member(j)) = Mean(member(k))
               /\ KeyRank(j) < KeyRank(k)
        sorted == CHOOSE o \in Orders(keys) :
                      \A i, j \in DOMAIN o : i < j => before(o[i], o[j])
    IN  [i \in DOMAIN sorted |->
            [key |-> sorted[i], Delivery_Time |-> Mean(member(sorted[i]))]]

\* weather_grp, traffic_grp, vehicle_grp (ascending), area_grp
Groups(f) == [c \in GroupFields |-> GroupBy(f, c, c = "Vehicle")]

----------------------------------------------------------------------------
(* One run of the script *)

NoSelection == [c \in CatFields |-> {}]
NoKPIs == [avg |-> Dash, total |-> 0, late |-> Num(0)]
NoGroups == [c \in GroupFields |-> <<>>]
NoThreshold == [kind |-> "nan", n |-> 0, sum |-> 0, sumsq |-> 0]

\* The script from the load to the last chart, with the column mapping cm
\* and the widget state the run starts from
Run(cm, widgets) ==
    /\ col_map' = cm
    /\ IF cm["Delivery_Time"] = None
       THEN \* st.stop(): no delivery-time column
            /\ pc' = "stopped"
            /\ before_rows' = 0 /\ after_rows' = 0
            /\ work' = <<>> /\ threshold' = NoThreshold
            /\ sel' = NoSelection /\ filtered' = <<>>
            /\ kpi' = NoKPIs /\ grp' = NoGroups
       ELSE \E clean \in {dropna(Frame(cm))} :
            /\ before_rows' = Len(Frame(cm))
            /\ after_rows' = Len(clean)
            /\ IF clean = <<>>
               THEN \* st.stop(): nothing left after cleaning
                    /\ pc' = "stopped"
                    /\ work' = <<>> /\ threshold' = NoThreshold
                    /\ sel' = NoSelection /\ filtered' = <<>>
                    /\ kpi' = NoKPIs /\ grp' = NoGroups
               ELSE \E w \in {Derive(clean)} :
                    \E s \in {Selections(w, widgets)} :
                    \E f \in {Filter(w, s)} :
                        /\ pc' = "shown"
                        /\ work' = w
                        /\ threshold' = Threshold(clean)
                        /\ sel' = s
                        /\ filtered' = f
                        /\ kpi' = KPIs(f)
                        /\ grp' = Groups(f)
    /\ UNCHANGED <<hdrs, rows>>

\* A session starts: the process builds available_cols and runs the script
\* with the widgets at their defaults
RunScript ==
    /\ pc = "ready"
    /\ \E order \in Orders(Columns(hdrs)) : Run(ColMap(order), FreshWidgets)

\* The server is started again on the same file: a new process, whose set
\* iteration order need not be the previous one's
Restart ==
    /\ pc # "ready"
    /\ \E order \in Orders(Columns(hdrs)) : Run(ColMap(order), FreshWidgets)

\* The user changes one sidebar multiselect; the script runs again in the
\* same process, so the column mapping comes out as before
SelectFilter ==
    /\ pc = "shown"
    /\ \E c \in CatFields :
         \E x_sel \in SUBSET Options(work, c) :
            /\ x_sel # sel[c]
            /\ Run(col_map, Selected([sel EXCEPT ![c] = x_sel]))

----------------------------------------------------------------------------
(* The files the model is run on *)

Schemas ==
    { ("Delivery_Time" :> {"1", "9"}) @@ ("Weather" :> {"Sunny", "Rainy", NA}),
      ("Delivery Time " :> {"9", " 9 ", "abc", "inf", NA}),
      ("TimeTaken" :> {"5"}) @@ ("AGE" :> {"24", "25", "40", "41", "201", NA}),
      ("delivery time" :> {"5"}) @@ ("TRAFFIC" :> {"High", NA})
          @@ ("Vehicle Type" :> {"Bike", "Van"}),
      ("Delivery_Time" :> {"5"}) @@ ("Location" :> {"Urban", NA})
          @@ ("Category" :> {" food ", "None"}),
      ("DELIVERY_TIME" :> {"1"}) @@ ("Delivery Time" :> {"9"})
          @@ ("Rating" :> {"4", "x"}),
      ("DELIVERY_TIME" :> {"1", "abc"}) @@ ("Delivery_time" :> {"9"}),
      (" Weather" :> {" Sunny "}) @@ ("Order_ID" :> {"A", "B"}),
      ("Delivery_Time" :> {"5"}) @@ ("weather" :> {"Sunny", NA})
          @@ ("WEATHER" :> {"Rainy"}) }

RowsOf(sc) ==
    {r \in [DOMAIN sc -> UNION {sc[h] : h \in DOMAIN sc}] :
        \A h \in DOMAIN sc : r[h] \in sc[h]}

Init ==
    /\ \E sc \in Schemas :
         /\ hdrs = DOMAIN sc
         /\ \E n \in 0..MaxRows : rows \in [1..n -> RowsOf(sc)]
    /\ pc = "ready"
    /\ col_map = [t \in TargetSet |-> None]
    /\ before_rows = 0 /\ after_rows = 0
    /\ work = <<>> /\ threshold = NoThreshold
    /\ sel = NoSelection /\ filtered = <<>>
    /\ kpi = NoKPIs /\ grp = NoGroups

Next == RunScript \/ Restart \/ SelectFilter

Spec == Init /\ [][Next]_vars

----------------------------------------------------------------------------
(* Properties *)

Shown == pc = "shown"

\* C1: the threshold is mean + std over the whole clean frame; after any
\* sequence of selection changes it is still that value, every row left in
\* the filtered frame carries the Late flag it has against that threshold,
\* and the late percentage is made of those flags.
ThresholdFixedAtLoad ==
    Shown =>
        /\ threshold = Threshold(work)
        /\ \A i \in DOMAIN filtered :
              filtered[i].Late = 1 <=> Exceeds(filtered[i].Delivery_Time, Threshold(work))
        /\ filtered # <<>> =>
              kpi.late = Num(round2(100 * Cardinality({i \in DOMAIN filtered :
                             Exceeds(filtered[i].Delivery_Time, Threshold(work))}),
                         Len(filtered)))

\* A view that is a proper part of the frame and holds a late row which
\* would not be late against the view's own mean + std
ThresholdFixedAtLoadWitness ==
    /\ Shown
    /\ Len(filtered) < Len(work)
    /\ \E c \in CatFields : sel[c] # Options(work, c)
    /\ \E i \in DOMAIN filtered :
          /\ filtered[i].Late = 1
          /\ ~Exceeds(filtered[i].Delivery_Time, Threshold(filtered))

DefaultSelection == \A c \in CatFields : sel[c] = Options(work, c)

\* C2: with the default selection (every value offered, for each of the five
\* fields) the filtered frame is the whole frame, rows with a missing
\* categorical value included.
DefaultSelectionKeepsAll == (Shown /\ DefaultSelection) => filtered = work

\* C3 (as claimed): an empty allowed set for a field that offers values leaves
\* no row in the filtered frame.
EmptySelectionMatchesNothing ==
    (Shown /\ \E c \in CatFields : Options(work, c) # {} /\ sel[c] = {})
        => filtered = <<>>

Allowed(r) == \A c \in CatFields : sel[c] = {} \/ r[c] \in sel[c]

\* C3 (amended): an empty allowed set is no constraint on its field, for
\* each of the five fields alike: the filtered frame is the rows of the frame
\* whose value is allowed in every field whose allowed set is not empty.
EmptySelectionIsNoConstraint == Shown => filtered = SelectSeq(work, Allowed)

\* The user has emptied the selection of a field that offers values, and
\* rows remain
EmptySelectionIsNoConstraintWitness ==
    /\ Shown
    /\ \E c \in CatFields : Options(work, c) # {} /\ sel[c] = {}
    /\ \E c \in CatFields : sel[c] # {} /\ sel[c] # Options(work, c)
    /\ filtered # <<>>

ClaimedAgeGroup(age) ==
    IF age.kind = "nan" THEN "Unknown"
    ELSE IF age.kind = "inf" THEN "40+"
    ELSE IF age.val <= 24 THEN "<25"
    ELSE IF age.val <= 40 THEN "25-40"
    ELSE "40+"

\* C4: Age_Group is "<25" up to 24, "25-40" above 24 up to 40, "40+" above
\* 40, and "Unknown" for a missing age.
AgeGroupBuckets ==
    Shown => \A i \in DOMAIN work : work[i].Age_Group = ClaimedAgeGroup(work[i].Agent_Age)

\* str.title over the categorical values of the model
title(s) == IF s = "food" THEN "Food" ELSE s

\* C5: in every clean row each of the five categorical fields is a string
\* that is not missing, "Unknown" standing for a missing value, and is in
\* title case.
CategoricalsNormalized ==
    Shown => \A i \in DOMAIN work : \A c \in CatFields :
                 /\ work[i][c] # NA
                 /\ work[i][c] = title(work[i][c])

Synonyms(t) == {variants[t][k] : k \in DOMAIN variants[t]}
ExactHits(t) == {k \in DOMAIN variants[t] : variants[t][k] \in Columns(hdrs)}
LooseHits(t) ==
    {k \in DOMAIN variants[t] :
        \E h \in Columns(hdrs) : lower(h) = lower(variants[t][k])}

\* C6 (as claimed): the synonym list is scanned first and the
\* case-insensitive match is a fallback: when a header of the file is one of
\* the synonyms, the field resolves to the earliest synonym that is a header.
ExactSynonymFirst ==
    pc # "ready" =>
        \A t \in TargetSet :
            ExactHits(t) # {} => col_map[t] = variants[t][Min(ExactHits(t))]

\* C6 (amended): the synonyms are taken in priority order and each is tried
\* exactly and then case-insensitively before the next one: the field
\* resolves to a header that matches, at least case-insensitively, the
\* earliest synonym matched by any header, to that synonym itself when it is
\* a header, and to no header when none matches.
EarliestSynonymWins ==
    pc # "ready" =>
        \A t \in TargetSet :
            IF LooseHits(t) = {} THEN col_map[t] = None
            ELSE LET v == variants[t][Min(LooseHits(t))]
                 IN  /\ col_map[t] \in Columns(hdrs)
                     /\ lower(col_map[t]) = lower(v)
                     /\ v \in Columns(hdrs) => col_map[t] = v

\* A field resolved case-insensitively while a later synonym is a header
EarliestSynonymWinsWitness ==
    /\ pc # "ready"
    /\ \E t \in TargetSet :
          /\ ExactHits(t) # {}
          /\ col_map[t] # None
          /\ col_map[t] \notin Synonyms(t)

Unparsed == {i \in DOMAIN rows : to_numeric(Cell(i, col_map["Delivery_Time"])) = NaN}

\* C7: every clean row has a finite delivery time; the rows dropped are
\* exactly those whose delivery-time cell is not a number, and
\* before_rows - after_rows is their count.
DeliveryTimeFinite ==
    (pc # "ready" /\ col_map["Delivery_Time"] # None) =>
        /\ \A i \in DOMAIN work : work[i].Delivery_Time.kind = "num"
        /\ before_rows = Len(rows)
        /\ before_rows - after_rows = Cardinality(Unparsed)
        /\ Len(work) = after_rows

\* C7 without "finite": what does hold of the dropped rows and the counts
DroppedRowsCounted ==
    (pc # "ready" /\ col_map["Delivery_Time"] # None) =>
        /\ \A i \in DOMAIN work : work[i].Delivery_Time # NaN
        /\ before_rows = Len(rows)
        /\ before_rows - after_rows = Cardinality(Unparsed)
        /\ Len(work) = after_rows

RowsOfKey(c, k) == {i \in DOMAIN filtered : filtered[i][c] = k}

\* C8: each grouped frame has one row per distinct value of its field in the
\* filtered frame and none for another value, the row carries the mean
\* delivery time of its group, and every filtered row is in a group.
GroupsCoverInput ==
    Shown =>
        \A c \in GroupFields :
            /\ \A i \in DOMAIN filtered :
                  Cardinality({j \in DOMAIN grp[c] : grp[c][j].key = filtered[i][c]}) = 1
            /\ \A j \in DOMAIN grp[c] :
                  /\ RowsOfKey(c, grp[c][j].key) # {}
                  /\ grp[c][j].Delivery_Time.kind = "num" =>
                        grp[c][j].Delivery_Time.num * Cardinality(RowsOfKey(c, grp[c][j].key))
                          = grp[c][j].Delivery_Time.den *
                            SumOver([i \in DOMAIN filtered |-> filtered[i].Delivery_Time.val],
                                    RowsOfKey(c, grp[c][j].key))

\* C9: when no row matches the selection the page is still rendered, with a
\* total of 0, a late percentage of 0 and an average that is undefined, not 0.
EmptyViewKPIs ==
    (Shown /\ filtered = <<>>) =>
        /\ kpi.total = 0
        /\ kpi.late = Num(0)
        /\ kpi.avg = Dash
        /\ kpi.avg # Num(0)

\* A frame with rows of which the selection keeps none
EmptyViewKPIsWitness == Shown /\ work # <<>> /\ filtered = <<>>

\* C10: a second run on the same file gives the column mapping and the clean
\* frame of the first.
IngestionDeterministic ==
    [][(pc # "ready" /\ pc' # "ready") => (col_map' = col_map /\ work' = work)]_vars

====
